---- MODULE Spec2Model ----
(***************************************************************************)
(* Model of src/kudu/scripts/upgrade.py: the Cloudera Manager parcel       *)
(* upgrade script.  Version strings are sequences of one-character         *)
(* strings so that the two regular expressions, int() and Python's string  *)
(* comparison are computed rather than assumed.                            *)
(***************************************************************************)
EXTENDS Integers, Sequences, FiniteSets, TLC

(***************************************************************************)
(* Characters and strings                                                  *)
(***************************************************************************)
Digits == <<"0", "1", "2", "3", "4", "5", "6", "7", "8", "9">>

IsDigit(c) == \E i \in 1..Len(Digits) : Digits[i] = c

\* int() of one decimal digit
DigitVal(c) == (CHOOSE i \in 1..Len(Digits) : Digits[i] = c) - 1

\* ord() of the characters that occur in the modelled version strings
Ord(c) ==
  CASE c = "-" -> 45
    [] c = "." -> 46
    [] IsDigit(c) -> 48 + DigitVal(c)
    [] c = "p" -> 112
    [] c = "x" -> 120

\* Python 2 str comparison a < b: bytewise, a proper prefix is smaller
RECURSIVE StrLess(_, _)
StrLess(a, b) ==
  IF b = <<>> THEN FALSE
  ELSE IF a = <<>> THEN TRUE
  ELSE IF Head(a) # Head(b) THEN Ord(Head(a)) < Ord(Head(b))
  ELSE StrLess(Tail(a), Tail(b))

\* length of the maximal run of digits at the start of s (greedy \d+)
RECURSIVE LeadDigits(_)
LeadDigits(s) ==
  IF s # <<>> /\ IsDigit(Head(s)) THEN 1 + LeadDigits(Tail(s)) ELSE 0

\* length of the maximal run of digits at the end of s
RECURSIVE TrailDigits(_)
TrailDigits(s) ==
  IF s # <<>> /\ IsDigit(s[Len(s)])
  THEN 1 + TrailDigits(SubSeq(s, 1, Len(s) - 1)) ELSE 0

\* int(s) for a non-empty string of decimal digits
RECURSIVE ParseInt(_)
ParseInt(s) ==
  IF s = <<>> THEN 0
  ELSE 10 * ParseInt(SubSeq(s, 1, Len(s) - 1)) + DigitVal(s[Len(s)])

(***************************************************************************)
(* Version parsing (nested helpers of get_best_upgrade_candidate_parcel)   *)
(***************************************************************************)
\* re.match(".*p\d+\.(\d+)$", full_version): the match object, or None
BuildMatch(full_version) ==
  LET n2 == TrailDigits(full_version)
      r1 == SubSeq(full_version, 1, Len(full_version) - n2)
      r2 == SubSeq(r1, 1, Len(r1) - 1)
      n1 == TrailDigits(r2)
      r3 == SubSeq(r2, 1, Len(r2) - n1)
  IN  IF /\ n2 >= 1
         /\ r1 # <<>> /\ r1[Len(r1)] = "."
         /\ n1 >= 1
         /\ r3 # <<>> /\ r3[Len(r3)] = "p"
      THEN [ok |-> TRUE,
            group1 |-> SubSeq(full_version, Len(full_version) - n2 + 1,
                              Len(full_version))]
      ELSE [ok |-> FALSE, group1 |-> <<>>]

\* re.match("(\d+\.\d+\.\d+).*", full_version): the match object, or None
ReleaseMatch(full_version) ==
  LET n1 == LeadDigits(full_version)
      r1 == SubSeq(full_version, n1 + 1, Len(full_version))
      r2 == Tail(r1)
      n2 == LeadDigits(r2)
      r3 == SubSeq(r2, n2 + 1, Len(r2))
      r4 == Tail(r3)
      n3 == LeadDigits(r4)
  IN  IF /\ n1 >= 1
         /\ r1 # <<>> /\ Head(r1) = "."
         /\ n2 >= 1
         /\ r3 # <<>> /\ Head(r3) = "."
         /\ n3 >= 1
      THEN [ok |-> TRUE, group1 |-> SubSeq(full_version, 1, n1 + n2 + n3 + 2)]
      ELSE [ok |-> FALSE, group1 |-> <<>>]

\* get_build_number: the build number, defined when BuildMatch succeeds
get_build_number(parcel) == ParseInt(BuildMatch(parcel.version).group1)

\* get_release_version: defined when ReleaseMatch succeeds
get_release_version(full_version) == ReleaseMatch(full_version).group1

release_versions_match(parcel1, parcel2) ==
  get_release_version(parcel1.version) = get_release_version(parcel2.version)

(***************************************************************************)
(* Values                                                                  *)
(***************************************************************************)
Stages == {"AVAILABLE_REMOTELY", "DOWNLOADED", "DISTRIBUTED", "ACTIVATED"}

\* Python's None where a parcel is expected
None == [product |-> "", version |-> <<>>, stage |-> "None"]

\* no exception pending
NoExc == [kind |-> "", detail |-> <<>>]

Raise(kind, detail) == [kind |-> kind, detail |-> detail]

\* the elements of s that satisfy Test, in order (a list comprehension)
SelectWhere(s, Test(_)) ==
  LET F[i \in 0..Len(s)] ==
        IF i = 0 THEN <<>>
        ELSE IF Test(s[i]) THEN Append(F[i - 1], s[i]) ELSE F[i - 1]
  IN  F[Len(s)]

\* Python's max(s, key=...) on a non-empty list: the first element that no
\* later element exceeds
PyMax(s, KeyLess(_, _)) ==
  LET F[i \in 1..Len(s)] ==
        IF i = 1 THEN s[1]
        ELSE IF KeyLess(F[i - 1], s[i]) THEN s[i] ELSE F[i - 1]
  IN  F[Len(s)]

(***************************************************************************)
(* get_best_upgrade_candidate_parcel                                       *)
(***************************************************************************)
\* lines 71-78: the two partitions of the listing
ActivatedOfAnyProduct(all_parcels, parcel_name) ==
  SelectWhere(all_parcels, LAMBDA p : p.stage = "ACTIVATED")

ActivatedOf(all_parcels, parcel_name) ==
  SelectWhere(all_parcels,
              LAMBDA p : p.product = parcel_name /\ p.stage = "ACTIVATED")

CandidatesOf(all_parcels, parcel_name) ==
  SelectWhere(all_parcels,
              LAMBDA p : p.product = parcel_name /\ p.stage # "ACTIVATED")

BuildLess(p, q) == get_build_number(p) < get_build_number(q)

VersionLessByBuild(p, q) == get_build_number(p) < get_build_number(q)

\* the key of line 109 is the raw version string
VersionLess(p, q) == StrLess(p.version, q.version)

\* the exception one evaluation of the filter condition of lines 106-107
\* raises for `parcel`, or NoExc; the condition is evaluated left to right
\* and `and` short-circuits
FilterExc(parcel, greatest_activated) ==
  IF ~ReleaseMatch(parcel.version).ok
  THEN Raise("ReleaseVersion", parcel.version)
  ELSE IF ~ReleaseMatch(greatest_activated.version).ok
  THEN Raise("ReleaseVersion", greatest_activated.version)
  ELSE IF release_versions_match(parcel, greatest_activated)
          /\ ~BuildMatch(parcel.version).ok
  THEN Raise("BuildNumber", parcel.version)
  ELSE NoExc

\* the filter condition of lines 106-107, when it raises nothing
FilterKeepsAnyRelease(parcel, greatest_activated) ==
  get_build_number(parcel) > get_build_number(greatest_activated)

FilterKeepsSameBuild(parcel, greatest_activated) ==
  /\ release_versions_match(parcel, greatest_activated)
  /\ get_build_number(parcel) >= get_build_number(greatest_activated)

FilterKeepsAnyBuild(parcel, greatest_activated) ==
  release_versions_match(parcel, greatest_activated)

FilterKeeps(parcel, greatest_activated) ==
  /\ release_versions_match(parcel, greatest_activated)
  /\ get_build_number(parcel) > get_build_number(greatest_activated)

\* the first exception raised in a list by a per-element computation
FirstExc(s, ExcOf(_)) ==
  LET F[i \in 0..Len(s)] ==
        IF i = 0 THEN NoExc
        ELSE IF F[i - 1] # NoExc THEN F[i - 1] ELSE ExcOf(s[i])
  IN  F[Len(s)]

KeyExc(parcel) ==
  IF BuildMatch(parcel.version).ok THEN NoExc
  ELSE Raise("BuildNumber", parcel.version)

\* the value returned (parcel, possibly None) and the exception raised
get_best_upgrade_candidate_parcel(all_parcels, parcel_name) ==
  LET activated_parcels == ActivatedOf(all_parcels, parcel_name)
      candidate_parcels == CandidatesOf(all_parcels, parcel_name)
  IN  IF Len(activated_parcels) > 0
      THEN IF FirstExc(activated_parcels, KeyExc) # NoExc
           THEN [parcel |-> None, exc |-> FirstExc(activated_parcels, KeyExc)]
           ELSE
             LET greatest_activated == PyMax(activated_parcels, BuildLess)
                 fexc == FirstExc(candidate_parcels,
                            LAMBDA p : FilterExc(p, greatest_activated))
                 filtered == SelectWhere(candidate_parcels,
                            LAMBDA p : FilterKeeps(p, greatest_activated))
             IN  IF fexc # NoExc THEN [parcel |-> None, exc |-> fexc]
                 ELSE IF Len(filtered) > 0
                 THEN [parcel |-> PyMax(filtered, VersionLess), exc |-> NoExc]
                 ELSE [parcel |-> None, exc |-> NoExc]
      ELSE [parcel |-> None, exc |-> Raise("NoActivated", <<>>)]

(***************************************************************************)
(* Inputs: version strings, parcel listings, command lines                 *)
(***************************************************************************)
V8   == <<"1", ".", "4", ".", "0", "-", "1", ".", "p", "0", ".", "8">>
V9   == <<"1", ".", "4", ".", "0", "-", "1", ".", "p", "0", ".", "9">>
V10  == <<"1", ".", "4", ".", "0", "-", "1", ".", "p", "0", ".", "1", "0">>
\* the build of V9 in another packaging of the same release
V9B  == <<"1", ".", "4", ".", "0", "-", "2", ".", "p", "0", ".", "9">>
\* the build number of V9 in another release
W9   == <<"1", ".", "5", ".", "0", "-", "1", ".", "p", "0", ".", "9">>
\* malformed: a build number but no release version
XB7  == <<"x", ".", "p", "0", ".", "7">>
\* malformed: a release version but no build number
R140 == <<"1", ".", "4", ".", "0">>

Parcel(product, version, stage) ==
  [product |-> product, version |-> version, stage |-> stage]

\* the remote identifies a parcel by product and version
DistinctKeys(s) ==
  \A i, j \in 1..Len(s) :
    i # j => (s[i].product # s[j].product \/ s[i].version # s[j].version)

ListsUpTo(U, n) ==
  {s \in UNION {[1..k -> U] : k \in 0..n} : DistinctKeys(s)}

\* longest parcel listing drawn from SelectUniverse
MaxListed == 3

\* longest parcel listing drawn from RunUniverse
MaxParcels == 3

\* largest --max-time-per-stage
MaxTime == 3

SelectUniverse ==
  {Parcel("KUDU", v, st) : v \in {V8, V9, V9B, V10, W9, XB7, R140},
                           st \in {"ACTIVATED", "DOWNLOADED"}}
  \cup {Parcel("KUDU", V10, "AVAILABLE_REMOTELY"),
        Parcel("CDH", V10, "ACTIVATED"), Parcel("CDH", V10, "DISTRIBUTED")}

RunUniverse ==
  {Parcel("KUDU", V8, st) : st \in {"ACTIVATED", "DISTRIBUTED", "DOWNLOADED"}}
  \cup {Parcel("KUDU", v, st) : v \in {V9, V10}, st \in Stages}
  \cup {Parcel("CDH", V9, st) : st \in {"ACTIVATED", "DISTRIBUTED"}}

\* the order in which the remote lists the parcels of RunUniverse
RunOrder == <<<<"KUDU", V8>>, <<"KUDU", V9>>, <<"KUDU", V10>>, <<"CDH", V9>>>>

RunRank(p) ==
  CHOOSE k \in 1..Len(RunOrder) : RunOrder[k] = <<p.product, p.version>>

\* the listings of RunUniverse of at most n parcels
RunListings(n) ==
  {s \in ListsUpTo(RunUniverse, n) :
     \A i, j \in 1..Len(s) : i < j => RunRank(s[i]) < RunRank(s[j])}

\* cluster.get_all_services(): the display names on the cluster
Services == <<"kudu", "impala", "impala">>

\* --service-name: absent, unique, unknown, ambiguous
ServiceNames == {"", "kudu", "hdfs", "impala"}

\* the command lines run against the listings of RunUniverse
RunArgs == [parcel_name : {"KUDU"},
            service_name : ServiceNames,
            max_time_per_stage : 0..MaxTime,
            clear_after_success : BOOLEAN,
            dry_run : BOOLEAN]

\* the command lines run against the listings of SelectUniverse
SelectArgs == [parcel_name : {"KUDU"},
               service_name : {""},
               max_time_per_stage : {1},
               clear_after_success : {TRUE},
               dry_run : BOOLEAN]

\* state.errors of a polled parcel
ErrorLists == {<<>>, <<"E1">>}

(***************************************************************************)
(* State                                                                   *)
(***************************************************************************)
VARIABLES
  remote,            \* the cluster's parcels as the remote holds them
  args,              \* the parsed command line
  pc,                \* position of the run
  all_parcels,       \* the listing read by the candidate selection
  parcel,            \* main's `parcel`: the candidate, then the loop parcel
  parcel_stage,      \* local of ensure_parcel_activated / _removed
  stage,             \* wait_for_parcel_stage: the target stage
  attempt,           \* wait_for_parcel_stage: the loop variable
  ret,               \* where wait_for_parcel_stage returns to
  target_parcel,     \* wait_for_parcel_stage: the record last fetched
  polls,             \* fetches made by the current wait
  sleeps,            \* sleeps made by the current wait
  inactive_parcels,  \* main: the parcels still to remove
  calls,             \* the mutating collaborator calls issued, in order,
                     \* and the return of the restart's wait()
  exc,               \* the exception that ended the run
  relisted,          \* main: the listing read at line 237
  past               \* the earlier invocations: how each ended

vars == <<remote, args, pc, all_parcels, parcel, parcel_stage, stage, attempt,
          ret, target_parcel, polls, sleeps, inactive_parcels, calls, exc,
          relisted, past>>

\* the global set at lines 205-206
dry_run == args.dry_run

NoRecord == [stage |-> "None", errors |-> <<>>]

Start(r, a) ==
  /\ remote = r
  /\ args = a
  /\ pc = "select"
  /\ all_parcels = <<>>
  /\ parcel = None
  /\ parcel_stage = "None"
  /\ stage = "None"
  /\ attempt = 0
  /\ ret = "None"
  /\ target_parcel = NoRecord
  /\ polls = 0
  /\ sleeps = 0
  /\ inactive_parcels = <<>>
  /\ calls = <<>>
  /\ exc = NoExc
  /\ relisted = <<>>
  /\ past = <<>>

Init ==
  \/ \E r \in RunListings(MaxParcels), a \in RunArgs : Start(r, a)
  \/ \E r \in ListsUpTo(SelectUniverse, MaxListed), a \in SelectArgs :
       Start(r, a)

\* a driver entered directly: ensure_parcel_activated on parcel p when at is
\* "ensure_activated", ensure_parcel_removed on each parcel of rest in turn
\* when at is "remove_loop"
DriverStart(r, a, at, p, rest) ==
  /\ remote = r
  /\ args = a
  /\ pc = at
  /\ all_parcels = r
  /\ parcel = p
  /\ parcel_stage = "None"
  /\ stage = "None"
  /\ attempt = 0
  /\ ret = "None"
  /\ target_parcel = NoRecord
  /\ polls = 0
  /\ sleeps = 0
  /\ inactive_parcels = rest
  /\ calls = <<>>
  /\ exc = NoExc
  /\ relisted = IF at = "remove_loop" THEN r ELSE <<>>
  /\ past = <<>>

\* the runs of main, and the two drivers entered on parcels of any stage
DriverInit ==
  \/ Init
  \/ \E r \in RunListings(MaxParcels), a \in RunArgs :
       \/ \E i \in 1..Len(r) :
            DriverStart(r, a, "ensure_activated", r[i], <<>>)
       \/ DriverStart(r, a, "remove_loop", None, r)

\* largest --max-time-per-stage of the command lines that are re-invoked
RerunMaxTime == 1

\* the command lines that are run again after the process has ended
RerunArgs ==
  {a \in RunArgs : /\ a.max_time_per_stage <= RerunMaxTime
                   /\ a.service_name \in {"", "hdfs"}
                   /\ ~a.dry_run}

\* the listings run again: parcels of the named product only
RerunInit ==
  \E r \in RunListings(MaxParcels), a \in RerunArgs :
    /\ \A i \in 1..Len(r) : r[i].product = a.parcel_name
    /\ Start(r, a)

\* an uncaught exception ends the run
Fail(e) == /\ exc' = e
           /\ pc' = "failed"

Call(op, p) == calls' = Append(calls, [op |-> op, product |-> p.product,
                                       version |-> p.version])

\* entry of wait_for_parcel_stage(cluster, parcel, target, max_time)
Wait(target, back) ==
  /\ stage' = target
  /\ attempt' = 1
  /\ ret' = back
  /\ target_parcel' = NoRecord
  /\ polls' = 0
  /\ sleeps' = 0
  /\ pc' = "wait"

waitvars == <<stage, attempt, ret, polls, sleeps>>

(***************************************************************************)
(* main: candidate selection                                               *)
(***************************************************************************)
SelectCandidateNoEarlyExit ==
  /\ pc = "select"
  /\ all_parcels' = remote
  /\ LET r == get_best_upgrade_candidate_parcel(remote, args.parcel_name)
     IN  /\ parcel' = r.parcel
         /\ IF r.exc # NoExc THEN Fail(r.exc)
            ELSE /\ exc' = exc
                 /\ pc' = IF r.parcel = None THEN "cleanup"
                                             ELSE "ensure_activated"
  /\ UNCHANGED <<remote, args, past, relisted, parcel_stage, waitvars,
                 target_parcel, inactive_parcels, calls>>

SelectCandidateRestartsAnyway ==
  /\ pc = "select"
  /\ all_parcels' = remote
  /\ LET r == get_best_upgrade_candidate_parcel(remote, args.parcel_name)
     IN  /\ parcel' = r.parcel
         /\ IF r.exc # NoExc THEN Fail(r.exc)
            ELSE /\ exc' = exc
                 /\ pc' = IF r.parcel = None THEN "restart"
                                             ELSE "ensure_activated"
  /\ UNCHANGED <<remote, args, past, relisted, parcel_stage, waitvars,
                 target_parcel, inactive_parcels, calls>>

SelectCandidate ==
  /\ pc = "select"
  /\ all_parcels' = remote
  /\ LET r == get_best_upgrade_candidate_parcel(remote, args.parcel_name)
     IN  /\ parcel' = r.parcel
         /\ IF r.exc # NoExc THEN Fail(r.exc)
            ELSE /\ exc' = exc
                 /\ pc' = IF r.parcel = None THEN "done" ELSE "ensure_activated"
  /\ UNCHANGED <<remote, args, past, relisted, parcel_stage, waitvars, target_parcel,
                 inactive_parcels, calls>>

(***************************************************************************)
(* wait_for_parcel_stage                                                   *)
(***************************************************************************)
\* the remote after the polled parcel has moved to stage st
RemoteWith(p, st) ==
  [i \in DOMAIN remote |->
     IF remote[i].product = p.product /\ remote[i].version = p.version
     THEN [remote[i] EXCEPT !.stage = st] ELSE remote[i]]

\* the remotes that can report stage st for parcel p: when p is reported
\* ACTIVATED the server may have taken the product's other activated versions
\* back to DISTRIBUTED
RemoteAfterPoll(p, st) ==
  {RemoteWith(p, st)} \cup
  IF st # "ACTIVATED" THEN {}
  ELSE {[i \in DOMAIN remote |->
           IF remote[i].product = p.product /\ remote[i].version = p.version
           THEN [remote[i] EXCEPT !.stage = st]
           ELSE IF remote[i].product = p.product
                   /\ remote[i].stage = "ACTIVATED"
           THEN [remote[i] EXCEPT !.stage = "DISTRIBUTED"]
           ELSE remote[i]]}

\* one iteration of the loop up to the sleep: the live record is fetched,
\* whatever stage and errors the remote reports by then
WaitPollIgnoringErrors ==
  /\ pc = "wait"
  /\ attempt <= args.max_time_per_stage
  /\ \E st \in Stages, er \in ErrorLists :
       /\ remote' \in RemoteAfterPoll(parcel, st)
       /\ target_parcel' = [stage |-> st, errors |-> er]
       /\ polls' = polls + 1
       /\ pc' = IF st = stage THEN ret ELSE "sleep"
       /\ exc' = exc
  /\ UNCHANGED <<args, past, relisted, all_parcels, parcel, parcel_stage, stage, attempt, ret,
                 sleeps, inactive_parcels, calls>>

WaitPollOneMore ==
  /\ pc = "wait"
  /\ attempt <= args.max_time_per_stage + 1
  /\ \E st \in Stages, er \in ErrorLists :
       /\ remote' \in RemoteAfterPoll(parcel, st)
       /\ target_parcel' = [stage |-> st, errors |-> er]
       /\ polls' = polls + 1
       /\ IF st = stage
          THEN /\ pc' = ret
               /\ exc' = exc
          ELSE IF er # <<>>
          THEN Fail(Raise("RemoteError", er))
          ELSE /\ pc' = "sleep"
               /\ exc' = exc
  /\ UNCHANGED <<args, past, relisted, all_parcels, parcel, parcel_stage, stage, attempt, ret,
                 sleeps, inactive_parcels, calls>>

WaitPoll ==
  /\ pc = "wait"
  /\ attempt <= args.max_time_per_stage
  /\ \E st \in Stages, er \in ErrorLists :
       /\ remote' \in RemoteAfterPoll(parcel, st)
       /\ target_parcel' = [stage |-> st, errors |-> er]
       /\ polls' = polls + 1
       /\ IF st = stage
          THEN /\ pc' = ret
               /\ exc' = exc
          ELSE IF er # <<>>
          THEN Fail(Raise("RemoteError", er))
          ELSE /\ pc' = "sleep"
               /\ exc' = exc
  /\ UNCHANGED <<args, past, relisted, all_parcels, parcel, parcel_stage, stage, attempt, ret,
                 sleeps, inactive_parcels, calls>>

\* time.sleep(1) and the step of the loop variable
WaitSleep ==
  /\ pc = "sleep"
  /\ sleeps' = sleeps + 1
  /\ attempt' = attempt + 1
  /\ pc' = "wait"
  /\ UNCHANGED <<remote, args, past, relisted, all_parcels, parcel, parcel_stage, stage, ret,
                 target_parcel, polls, inactive_parcels, calls, exc>>

WaitTimeoutContained ==
  /\ pc = "wait"
  /\ attempt > args.max_time_per_stage
  /\ exc' = Raise("Timeout", <<stage>>)
  /\ pc' = IF ret = "er_undistributed" THEN "remove_loop" ELSE "failed"
  /\ UNCHANGED <<remote, args, past, relisted, all_parcels, parcel,
                 parcel_stage, waitvars, target_parcel, inactive_parcels,
                 calls>>

\* the else clause of the for loop
WaitTimeout ==
  /\ pc = "wait"
  /\ attempt > args.max_time_per_stage
  /\ Fail(Raise("Timeout", <<stage>>))
  /\ UNCHANGED <<remote, args, past, relisted, all_parcels, parcel, parcel_stage, waitvars,
                 target_parcel, inactive_parcels, calls>>

(***************************************************************************)
(* ensure_parcel_activated                                                 *)
(***************************************************************************)
\* the frame of a step of the drivers that issues no call and starts no wait
Local == UNCHANGED <<remote, args, past, relisted, all_parcels, parcel, waitvars,
                     target_parcel, inactive_parcels, calls, exc>>

\* the frame of a step that issues a call and enters a wait
Issuing == UNCHANGED <<remote, args, past, relisted, all_parcels, parcel, parcel_stage,
                       inactive_parcels, exc>>

\* the list comprehension of find_service
find_service_matches(service_name) ==
  SelectWhere(Services, LAMBDA d : d = service_name)

\* the exception find_service raises, or NoExc
find_service_exc(service_name) ==
  IF Len(find_service_matches(service_name)) = 0
  THEN Raise("NoService", <<service_name>>)
  ELSE IF ~(Len(find_service_matches(service_name)) = 1)
  THEN Raise("AmbiguousService", <<>>)
  ELSE NoExc

EnsureActivatedEntryNoDryRun ==
  /\ pc = "ensure_activated"
  /\ pc' = "ea_download"
  /\ parcel_stage' = parcel.stage
  /\ Local

EnsureActivatedEntryServiceFirst ==
  /\ pc = "ensure_activated"
  /\ IF args.service_name # "" /\ find_service_exc(args.service_name) # NoExc
     THEN /\ Fail(find_service_exc(args.service_name))
          /\ parcel_stage' = parcel_stage
     ELSE /\ exc' = exc
          /\ parcel_stage' = IF dry_run THEN parcel_stage ELSE parcel.stage
          /\ pc' = IF dry_run THEN "restart" ELSE "ea_download"
  /\ UNCHANGED <<remote, args, past, relisted, all_parcels, parcel, waitvars,
                 target_parcel, inactive_parcels, calls>>

EnsureActivatedEntry ==
  /\ pc = "ensure_activated"
  /\ IF dry_run
     THEN /\ pc' = "restart"
          /\ parcel_stage' = parcel_stage
     ELSE /\ pc' = "ea_download"
          /\ parcel_stage' = parcel.stage
  /\ Local

EaDownloadAlways ==
  /\ pc = "ea_download"
  /\ Call("start_download", parcel)
  /\ Wait("DOWNLOADED", "ea_downloaded")
  /\ Issuing

EaDownload ==
  /\ pc = "ea_download"
  /\ IF parcel_stage = "AVAILABLE_REMOTELY"
     THEN /\ Call("start_download", parcel)
          /\ Wait("DOWNLOADED", "ea_downloaded")
          /\ Issuing
     ELSE /\ pc' = "ea_distribute"
          /\ parcel_stage' = parcel_stage
          /\ Local

EaDownloaded ==
  /\ pc = "ea_downloaded"
  /\ parcel_stage' = "DOWNLOADED"
  /\ pc' = "ea_distribute"
  /\ Local

EaDistributeAlways ==
  /\ pc = "ea_distribute"
  /\ Call("start_distribution", parcel)
  /\ Wait("DISTRIBUTED", "ea_distributed")
  /\ Issuing

EaDistribute ==
  /\ pc = "ea_distribute"
  /\ IF parcel_stage = "DOWNLOADED"
     THEN /\ Call("start_distribution", parcel)
          /\ Wait("DISTRIBUTED", "ea_distributed")
          /\ Issuing
     ELSE /\ pc' = "ea_activate"
          /\ parcel_stage' = parcel_stage
          /\ Local

EaDistributed ==
  /\ pc = "ea_distributed"
  /\ parcel_stage' = "DISTRIBUTED"
  /\ pc' = "ea_activate"
  /\ Local

EaActivateNotWaiting ==
  /\ pc = "ea_activate"
  /\ IF parcel_stage = "DISTRIBUTED"
     THEN Call("activate", parcel)
     ELSE calls' = calls
  /\ pc' = "restart"
  /\ UNCHANGED <<remote, args, past, relisted, all_parcels, parcel,
                 parcel_stage, waitvars, target_parcel, inactive_parcels, exc>>

EaActivateAlways ==
  /\ pc = "ea_activate"
  /\ Call("activate", parcel)
  /\ Wait("ACTIVATED", "ea_activated")
  /\ Issuing

EaActivate ==
  /\ pc = "ea_activate"
  /\ IF parcel_stage = "DISTRIBUTED"
     THEN /\ Call("activate", parcel)
          /\ Wait("ACTIVATED", "ea_activated")
          /\ Issuing
     ELSE /\ pc' = "restart"
          /\ parcel_stage' = parcel_stage
          /\ Local

EaActivated ==
  /\ pc = "ea_activated"
  /\ pc' = "restart"
  /\ parcel_stage' = parcel_stage
  /\ Local

(***************************************************************************)
(* find_service and the restart                                            *)
(***************************************************************************)
RestartNotWaiting ==
  /\ pc = "restart"
  /\ IF args.service_name # "" /\ find_service_exc(args.service_name) # NoExc
     THEN /\ Fail(find_service_exc(args.service_name))
          /\ calls' = calls
     ELSE /\ exc' = exc
          /\ pc' = "cleanup"
          /\ calls' = IF dry_run THEN calls
                      ELSE Append(calls,
                             IF args.service_name # ""
                             THEN [op |-> "restart_service", product |-> "",
                                   version |-> <<args.service_name>>]
                             ELSE [op |-> "restart_cluster", product |-> "",
                                   version |-> <<>>])
  /\ UNCHANGED <<remote, args, past, relisted, all_parcels, parcel,
                 parcel_stage, waitvars, target_parcel, inactive_parcels>>

Restart ==
  /\ pc = "restart"
  /\ IF args.service_name # "" /\ find_service_exc(args.service_name) # NoExc
     THEN /\ Fail(find_service_exc(args.service_name))
          /\ calls' = calls
     ELSE /\ exc' = exc
          /\ IF dry_run
             THEN /\ pc' = "cleanup"
                  /\ calls' = calls
             ELSE /\ pc' = "restart_wait"
                  /\ calls' = Append(calls,
                       IF args.service_name # ""
                       THEN [op |-> "restart_service", product |-> "",
                             version |-> <<args.service_name>>]
                       ELSE [op |-> "restart_cluster", product |-> "",
                             version |-> <<>>])
  /\ UNCHANGED <<remote, args, past, relisted, all_parcels, parcel, parcel_stage, waitvars,
                 target_parcel, inactive_parcels>>

\* .wait() on the restart command returns
RestartWait ==
  /\ pc = "restart_wait"
  /\ pc' = "cleanup"
  /\ calls' = Append(calls, [op |-> "restart_returned", product |-> "",
                             version |-> <<>>])
  /\ UNCHANGED <<remote, args, past, relisted, all_parcels, parcel,
                 parcel_stage, waitvars, target_parcel, inactive_parcels, exc>>

(***************************************************************************)
(* main: removal of the unused parcels, and ensure_parcel_removed          *)
(***************************************************************************)
InactiveOfAnyProduct(parcels, parcel_name) ==
  SelectWhere(parcels, LAMBDA p : ~(p.stage = "ACTIVATED"))

InactiveOf(parcels, parcel_name) ==
  SelectWhere(parcels,
              LAMBDA p : p.product = parcel_name /\ ~(p.stage = "ACTIVATED"))

Cleanup ==
  /\ pc = "cleanup"
  /\ IF args.clear_after_success
     THEN /\ relisted' = remote
          /\ inactive_parcels' = InactiveOf(remote, args.parcel_name)
          /\ pc' = IF dry_run THEN "done" ELSE "remove_loop"
     ELSE /\ relisted' = relisted
          /\ inactive_parcels' = inactive_parcels
          /\ pc' = "done"
  /\ UNCHANGED <<remote, args, past, all_parcels, parcel, parcel_stage,
                 waitvars, target_parcel, calls, exc>>

\* the for loop of line 244 takes the next parcel and enters
\* ensure_parcel_removed, or ends
RemoveLoop ==
  /\ pc = "remove_loop"
  /\ IF inactive_parcels = <<>>
     THEN /\ pc' = "done"
          /\ UNCHANGED <<parcel, parcel_stage, inactive_parcels>>
     ELSE /\ parcel' = Head(inactive_parcels)
          /\ inactive_parcels' = Tail(inactive_parcels)
          /\ parcel_stage' = Head(inactive_parcels).stage
          /\ pc' = "er_distribution"
  /\ UNCHANGED <<remote, args, past, relisted, all_parcels, waitvars, target_parcel, calls,
                 exc>>

ErDistribution ==
  /\ pc = "er_distribution"
  /\ IF parcel_stage = "DISTRIBUTED"
     THEN /\ Call("start_removal_of_distribution", parcel)
          /\ Wait("DOWNLOADED", "er_undistributed")
          /\ Issuing
     ELSE /\ pc' = "er_download"
          /\ parcel_stage' = parcel_stage
          /\ Local

ErUndistributed ==
  /\ pc = "er_undistributed"
  /\ parcel_stage' = "DOWNLOADED"
  /\ pc' = "er_download"
  /\ Local

ErDownloadThenWait ==
  /\ pc = "er_download"
  /\ IF parcel_stage = "DOWNLOADED"
     THEN /\ Call("remove_download", parcel)
          /\ Wait("AVAILABLE_REMOTELY", "remove_loop")
          /\ Issuing
     ELSE /\ pc' = "remove_loop"
          /\ parcel_stage' = parcel_stage
          /\ Local

ErDownload ==
  /\ pc = "er_download"
  /\ IF parcel_stage = "DOWNLOADED"
     THEN Call("remove_download", parcel)
     ELSE calls' = calls
  /\ pc' = "remove_loop"
  /\ UNCHANGED <<remote, args, past, relisted, all_parcels, parcel, parcel_stage, waitvars,
                 target_parcel, inactive_parcels, exc>>

(***************************************************************************)
(* The process has ended and the tool is invoked again, once, with the     *)
(* same command line. Nothing of the earlier process survives but the      *)
(* remote, where the parcel the earlier run drove may have moved to any    *)
(* stage.                                                                  *)
(***************************************************************************)
\* the parcel a run chose from its listing, None if it chose none or raised
Chosen == IF all_parcels = <<>> THEN None
          ELSE get_best_upgrade_candidate_parcel(all_parcels,
                                                 args.parcel_name).parcel

Reinvoke ==
  /\ pc \in {"failed", "done"}
  /\ past = <<>>
  /\ past' = Append(past, [exc |-> exc, parcel |-> Chosen, calls |-> calls])
  /\ remote' \in IF Chosen = None THEN {remote}
                 ELSE UNION {RemoteAfterPoll(Chosen, st) : st \in Stages}
  /\ pc' = "select"
  /\ all_parcels' = <<>>
  /\ parcel' = None
  /\ parcel_stage' = "None"
  /\ stage' = "None"
  /\ attempt' = 0
  /\ ret' = "None"
  /\ target_parcel' = NoRecord
  /\ polls' = 0
  /\ sleeps' = 0
  /\ inactive_parcels' = <<>>
  /\ calls' = <<>>
  /\ exc' = NoExc
  /\ relisted' = <<>>
  /\ args' = args

(***************************************************************************)
(* Specifications                                                          *)
(***************************************************************************)
Next ==
  \/ SelectCandidate
  \/ EnsureActivatedEntry
  \/ EaDownload
  \/ EaDownloaded
  \/ EaDistribute
  \/ EaDistributed
  \/ EaActivate
  \/ EaActivated
  \/ WaitPoll
  \/ WaitSleep
  \/ WaitTimeout
  \/ Restart
  \/ RestartWait
  \/ Cleanup
  \/ RemoveLoop
  \/ ErDistribution
  \/ ErUndistributed
  \/ ErDownload

Spec == Init /\ [][Next]_vars

\* the run is sequential: a fetch returns, a sleep ends and the loop takes
\* its next step
RerunNext == Next \/ Reinvoke

RerunSpec == RerunInit /\ [][RerunNext]_vars

DriverSpec == DriverInit /\ [][Next]_vars

FairSpec ==
  Spec /\ WF_vars(WaitPoll) /\ WF_vars(WaitSleep) /\ WF_vars(WaitTimeout)

(***************************************************************************)
(* Properties                                                              *)
(***************************************************************************)
MutatingOps ==
  {"start_download", "start_distribution", "activate", "restart_service",
   "restart_cluster", "start_removal_of_distribution", "remove_download"}

\* C1: with dry-run enabled no mutating collaborator call is ever issued
\* (no start-download, start-distribution, activate, restart of a service or
\* of the cluster, start-removal-of-distribution or remove-download).
C1_DryRunIssuesNoMutatingCall ==
  dry_run => \A i \in 1..Len(calls) : calls[i].op \notin MutatingOps

\* a dry run that selected a candidate, resolved a named service and listed
\* unused parcels with clear-after-success set, and ended
C1_Witness ==
  /\ dry_run
  /\ pc = "done"
  /\ parcel # None
  /\ args.service_name # ""
  /\ args.clear_after_success
  /\ inactive_parcels # <<>>

\* the listing the selection read, as a set, and its parts
Listed == {all_parcels[i] : i \in 1..Len(all_parcels)}

ProductActivated ==
  {p \in Listed : p.product = args.parcel_name /\ p.stage = "ACTIVATED"}

ProductOthers ==
  {p \in Listed : p.product = args.parcel_name /\ p.stage # "ACTIVATED"}

HasBuild(p) == BuildMatch(p.version).ok

HasRelease(p) == ReleaseMatch(p.version).ok

BuildOf(p) == ParseInt(BuildMatch(p.version).group1)

ReleaseOf(p) == ReleaseMatch(p.version).group1

\* the activated parcels of the product all have a build number
HasBaseline ==
  /\ ProductActivated # {}
  /\ \A a \in ProductActivated : HasBuild(a)

\* the activated parcel of the product with the greatest build number (the
\* first one listed, among equals)
Baseline ==
  LET Greatest(i) ==
        /\ all_parcels[i] \in ProductActivated
        /\ \A a \in ProductActivated : BuildOf(a) <= BuildOf(all_parcels[i])
      first == CHOOSE i \in 1..Len(all_parcels) :
                 Greatest(i) /\ \A j \in 1..(i - 1) : ~Greatest(j)
  IN  all_parcels[first]

\* the selection has just returned a parcel
ReturnedParcel == pc = "ensure_activated"

\* the selection has returned None, or raised
ReturnedNoParcel == pc \in {"done", "failed"} /\ parcel = None

\* C2: selectBestCandidate never returns a parcel whose release version
\* differs from the release version of the activated baseline.
C2_SameReleaseAsBaseline ==
  ReturnedParcel =>
    /\ HasBaseline
    /\ HasRelease(parcel) /\ HasRelease(Baseline)
    /\ ReleaseOf(parcel) = ReleaseOf(Baseline)

\* a parcel was returned although a newer build of another release was listed
C2_Witness ==
  /\ ReturnedParcel
  /\ \E c \in ProductOthers :
       /\ HasRelease(c) /\ HasBuild(c)
       /\ ReleaseOf(c) # ReleaseOf(Baseline)
       /\ BuildOf(c) > BuildOf(Baseline)

C4_NoActivatedIsFatal ==
  (pc # "select" /\ ProductActivated = {}) =>
    /\ pc = "failed"
    /\ exc = Raise("NoActivated", <<>>)
    /\ parcel = None
    /\ \A i \in 1..Len(calls) : calls[i].op \notin MutatingOps

\* the error was raised, dry-run off, with an activated parcel of another
\* product and a malformed and a well-formed idle parcel of the product
C4_Witness ==
  /\ pc = "failed" /\ exc.kind = "NoActivated"
  /\ ~dry_run
  /\ \E p \in Listed : p.product # args.parcel_name /\ p.stage = "ACTIVATED"
  /\ \E c \in ProductOthers : ~HasRelease(c)
  /\ \E c \in ProductOthers : HasRelease(c) /\ HasBuild(c)

\* the non-activated parcels of the product with the baseline's release
\* version and a strictly greater build number
FilteredSet ==
  {c \in ProductOthers :
     /\ HasRelease(c) /\ HasRelease(Baseline)
     /\ ReleaseOf(c) = ReleaseOf(Baseline)
     /\ HasBuild(c)
     /\ BuildOf(c) > BuildOf(Baseline)}

\* C5: the candidate returned has the greatest build number of the filtered
\* set: no other member has a larger build number.
C5_GreatestBuildNumber ==
  ReturnedParcel =>
    \A c \in FilteredSet : BuildOf(c) <= BuildOf(parcel)

C7_NeverDowngrade ==
  ReturnedParcel =>
    /\ parcel.stage # "ACTIVATED"
    /\ HasBuild(parcel)
    /\ \A a \in ProductActivated :
         HasBuild(a) /\ BuildOf(parcel) > BuildOf(a)

\* a parcel was returned with two activated parcels of different builds
\* listed
C7_Witness ==
  /\ ReturnedParcel
  /\ \E a \in ProductActivated : BuildOf(a) < BuildOf(Baseline)

\* the lifecycle calls issued so far, in order
ActivationOps ==
  LET F[i \in 0..Len(calls)] ==
        IF i = 0 THEN <<>>
        ELSE IF calls[i].op \in {"start_download", "start_distribution",
                                 "activate"}
        THEN Append(F[i - 1], calls[i].op) ELSE F[i - 1]
  IN  F[Len(calls)]

\* the actions owed to a parcel entered at stage st, in their fixed order
OwedFrom(st) ==
  CASE st = "AVAILABLE_REMOTELY" ->
         <<"start_download", "start_distribution", "activate">>
    [] st = "DOWNLOADED" -> <<"start_distribution", "activate">>
    [] st = "DISTRIBUTED" -> <<"activate">>
    [] OTHER -> <<>>

\* the stage waited for after an action
TargetOf(op) ==
  CASE op = "start_download" -> "DOWNLOADED"
    [] op = "start_distribution" -> "DISTRIBUTED"
    [] op = "activate" -> "ACTIVATED"

IsPrefix(s, t) == Len(s) <= Len(t) /\ s = SubSeq(t, 1, Len(s))

ActivationPcs ==
  {"ea_download", "ea_downloaded", "ea_distribute", "ea_distributed",
   "ea_activate", "ea_activated"}

\* inside the waits of ensure_parcel_activated
ActivationWaiting == pc \in {"wait", "sleep"} /\ ret \in ActivationPcs

\* ensure_parcel_activated has returned normally, dry-run off
ActivationReturned ==
  ~dry_run /\ pc \in {"restart", "restart_wait", "cleanup"}

\* `parcel` is the candidate and ensure_parcel_activated was entered with
\* dry-run off
ActivationEntered ==
  /\ ~dry_run
  /\ \/ pc \in ActivationPcs
     \/ ActivationWaiting
     \/ ActivationReturned
     \/ pc = "failed" /\ parcel # None /\ ret # "er_undistributed"

C8_Resumes ==
  /\ ActivationEntered =>
       /\ IsPrefix(ActivationOps, OwedFrom(parcel.stage))
       /\ \A i \in 1..Len(calls) :
            calls[i].op \in {"start_download", "start_distribution",
                             "activate"}
            => /\ calls[i].product = parcel.product
               /\ calls[i].version = parcel.version
  /\ ActivationReturned => ActivationOps = OwedFrom(parcel.stage)
  /\ ActivationWaiting =>
       stage = TargetOf(ActivationOps[Len(ActivationOps)])

C8_AfterPreviousWait ==
  (Len(ActivationOps') > Len(ActivationOps) /\ ActivationOps # <<>>) =>
    /\ pc \in ActivationPcs
    /\ stage = TargetOf(ActivationOps[Len(ActivationOps)])
    /\ polls >= 1
    /\ target_parcel.stage = stage

\* C8: activateParcel (dry-run off) issues only the actions for the stages
\* the parcel had not reached at entry, in the order download-start,
\* distribute-start, activate, all of them when it returns, each followed by
\* the wait for its own target stage, and each later action only after a
\* poll of the previous wait saw the previous target stage.
C8_ResumesFromEntryStage ==
  [](C8_Resumes) /\ [][C8_AfterPreviousWait]_vars

\* entered at DOWNLOADED, returned having issued distribute-start, activate
C8_Witness ==
  /\ ActivationReturned
  /\ parcel.stage = "DOWNLOADED"
  /\ ActivationOps = <<"start_distribution", "activate">>

\* C9, as claimed: a poll that reports a non-empty error list aborts the wait
\* at that poll with a RemoteError carrying the errors.
C9_Original ==
  (polls > 0 /\ target_parcel.errors # <<>>) =>
    /\ pc = "failed"
    /\ exc = Raise("RemoteError", target_parcel.errors)

C9_AbortsAtThatPoll ==
  (target_parcel.errors # <<>> /\ target_parcel.stage # stage) =>
    /\ pc = "failed"
    /\ exc = Raise("RemoteError", target_parcel.errors)
    /\ sleeps = polls - 1

C9_NothingAfterAbort ==
  exc.kind = "RemoteError" => UNCHANGED <<polls, sleeps, calls, pc>>

\* C9, amended: a poll that reports a non-empty error list and a stage other
\* than the target stage aborts the wait at that poll with a RemoteError
\* carrying the reported errors: no success, no sleep after that poll, no
\* further poll.
C9_ErrorAbortsUnlessTargetReached ==
  [](C9_AbortsAtThatPoll) /\ [][C9_NothingAfterAbort]_vars

\* aborted at the second poll with a later attempt still allowed
C9_Witness ==
  /\ pc = "failed" /\ exc.kind = "RemoteError"
  /\ polls = 2 /\ sleeps = 1
  /\ polls < args.max_time_per_stage

\* a wait was entered and left, and none of its polls saw the target stage
\* or an error
LeftWaitUnserved ==
  /\ stage # "None"
  /\ pc \notin {"wait", "sleep"}
  /\ polls = 0 \/ (target_parcel.stage # stage /\ target_parcel.errors = <<>>)

C10_ExactlyMaxTimePolls ==
  /\ polls <= args.max_time_per_stage
  /\ sleeps <= polls
  /\ LeftWaitUnserved =>
       /\ pc = "failed"
       /\ exc.kind = "Timeout"
       /\ polls = args.max_time_per_stage
       /\ sleeps = args.max_time_per_stage

\* C10: for every max time >= 0 a wait whose polls never see the target
\* stage or an error fails with the timeout error after exactly max-time
\* fetches, each followed by one sleep; and every wait ends.
C10_TimeoutAfterMaxTimePolls ==
  [](C10_ExactlyMaxTimePolls)
  /\ ((pc \in {"wait", "sleep"}) ~> (pc \notin {"wait", "sleep"}))

\* the timeout was raised after three fetches and three sleeps
C10_Witness ==
  /\ pc = "failed" /\ exc.kind = "Timeout"
  /\ args.max_time_per_stage = 3
  /\ polls = 3 /\ sleeps = 3

RestartOps == {"restart_service", "restart_cluster"}

RemovalOps == {"start_removal_of_distribution", "remove_download"}

\* C11: no parcel removal call is issued before the restart has been issued
\* and its synchronous wait has returned.
C11_RemovalAfterRestartReturned ==
  \A i \in 1..Len(calls) :
    calls[i].op \in RemovalOps =>
      \E j, k \in 1..Len(calls) :
        /\ j < k /\ k < i
        /\ calls[j].op \in RestartOps
        /\ calls[k].op = "restart_returned"

\* a run that restarted a named service and then removed a parcel, ended
C11_Witness ==
  /\ pc = "done"
  /\ \E j \in 1..Len(calls) : calls[j].op = "restart_service"
  /\ \E i \in 1..Len(calls) : calls[i].op = "start_removal_of_distribution"
  /\ \E i \in 1..Len(calls) : calls[i].op = "remove_download"

\* C12: when the selection returns None the run ends normally having issued
\* no collaborator call: no lifecycle action, no restart, no removal, also
\* with clear-after-success set.
C12_NoCandidateIsNoOp ==
  (pc # "select" /\ parcel = None /\ exc = NoExc) =>
    /\ pc = "done"
    /\ calls = <<>>
    /\ relisted = <<>>
    /\ polls = 0

\* None was returned, dry-run off, clear-after-success set, a service named
\* and idle parcels of the product listed
C12_Witness ==
  /\ pc = "done" /\ parcel = None /\ exc = NoExc
  /\ ~dry_run
  /\ args.clear_after_success
  /\ args.service_name # ""
  /\ \E c \in ProductOthers : c.stage = "DISTRIBUTED"

\* the parcels of the listing read for the cleanup
Relisted == {relisted[i] : i \in 1..Len(relisted)}

\* the names of the removal calls issued so far on parcel p, in order
RemovalOpsOn(p) ==
  LET F[i \in 0..Len(calls)] ==
        IF i = 0 THEN <<>>
        ELSE IF /\ calls[i].op \in RemovalOps
                /\ calls[i].product = p.product
                /\ calls[i].version = p.version
             THEN Append(F[i - 1], calls[i].op)
             ELSE F[i - 1]
  IN  F[Len(calls)]

\* the removal calls removeParcel owes a parcel that it enters at stage st
OwedRemoval(st) ==
  IF st = "DISTRIBUTED"
  THEN <<"start_removal_of_distribution", "remove_download">>
  ELSE IF st = "DOWNLOADED" THEN <<"remove_download">>
  ELSE <<>>

RemovalWaiting == pc \in {"wait", "sleep"} /\ ret = "er_undistributed"

\* where removeParcel stands, and what it has issued on its parcel by then
C13_RemovalInOrder ==
  /\ pc = "er_distribution" => RemovalOpsOn(parcel) = <<>>
  /\ RemovalWaiting =>
       /\ parcel.stage = "DISTRIBUTED"
       /\ stage = "DOWNLOADED"
       /\ RemovalOpsOn(parcel) = <<"start_removal_of_distribution">>
  /\ pc = "er_undistributed" =>
       /\ parcel.stage = "DISTRIBUTED"
       /\ RemovalOpsOn(parcel) = <<"start_removal_of_distribution">>
       /\ polls >= 1
       /\ target_parcel.stage = "DOWNLOADED"
  /\ pc = "er_download" =>
       /\ parcel.stage = "DISTRIBUTED" =>
            /\ RemovalOpsOn(parcel) = <<"start_removal_of_distribution">>
            /\ polls >= 1
            /\ target_parcel.stage = "DOWNLOADED"
       /\ parcel.stage # "DISTRIBUTED" => RemovalOpsOn(parcel) = <<>>

\* the steps of removeParcel: entered at a stage other than DISTRIBUTED it
\* issues nothing before the download test; the step that issues
\* remove-download returns to the loop of main and polls nothing
C13_ReturnsAfterRemoveDownload ==
  /\ (pc = "er_distribution" /\ parcel.stage # "DISTRIBUTED") =>
       /\ pc' = "er_download"
       /\ UNCHANGED <<calls, polls, sleeps>>
  /\ pc = "er_download" =>
       /\ pc' = "remove_loop"
       /\ UNCHANGED <<polls, sleeps, target_parcel, parcel>>
       /\ RemovalOpsOn(parcel)' = OwedRemoval(parcel.stage)
       /\ parcel.stage \in {"DISTRIBUTED", "DOWNLOADED"} =>
            calls' = Append(calls, [op |-> "remove_download",
                                    product |-> parcel.product,
                                    version |-> parcel.version])

\* C13: removeParcel entered at DISTRIBUTED issues start-removal-of-
\* distribution, waits until a poll observes DOWNLOADED and only then issues
\* remove-download; entered at DOWNLOADED it issues only remove-download; in
\* both cases it returns right after remove-download with no further poll.
C13_RemoveParcelSequence ==
  [](C13_RemovalInOrder) /\ [][C13_ReturnsAfterRemoveDownload]_vars

\* a run that removed one parcel entered at DISTRIBUTED, after more than one
\* poll, and one parcel entered at DOWNLOADED
C13_Witness ==
  /\ pc = "done"
  /\ \E p, q \in Relisted :
       /\ p.stage = "DISTRIBUTED" /\ q.stage = "DOWNLOADED"
       /\ RemovalOpsOn(p) = OwedRemoval("DISTRIBUTED")
       /\ RemovalOpsOn(q) = OwedRemoval("DOWNLOADED")

\* the stages at which activateParcel, and removeParcel, have nothing to do
OutsideActivation == {"ACTIVATED"}

OutsideRemoval == {"ACTIVATED", "AVAILABLE_REMOTELY"}

\* C14: a parcel whose stage at entry is outside the expected set is a no-op:
\* every step of activateParcel on an ACTIVATED parcel, and of removeParcel
\* on an ACTIVATED or AVAILABLE_REMOTELY parcel, issues no call, polls
\* nothing, raises nothing and goes on to the return of the driver.
C14_OutOfSetStageIsNoOp ==
  [][ /\ ( /\ ~dry_run
           /\ parcel.stage \in OutsideActivation
           /\ pc \in {"ensure_activated", "ea_download", "ea_distribute",
                      "ea_activate"} ) =>
           /\ pc' \in {"ea_download", "ea_distribute", "ea_activate",
                       "restart"}
           /\ UNCHANGED <<calls, polls, sleeps, target_parcel, exc, remote>>
      /\ ( /\ parcel.stage \in OutsideRemoval
           /\ pc \in {"er_distribution", "er_download"} ) =>
           /\ pc' \in {"er_download", "remove_loop"}
           /\ UNCHANGED <<calls, polls, sleeps, target_parcel, exc, remote>>
    ]_vars

\* activateParcel has returned from an ACTIVATED parcel, the restart has been
\* issued, and removeParcel has returned from an AVAILABLE_REMOTELY parcel,
\* with no call on a parcel and no poll
C14_Witness ==
  /\ pc = "done"
  /\ ~dry_run
  /\ \E p \in Listed : p.stage = "ACTIVATED" /\ p.product = args.parcel_name
  /\ parcel.stage = "AVAILABLE_REMOTELY"
  /\ Len(calls) = 2
  /\ calls[1].op \in RestartOps
  /\ target_parcel = NoRecord
  /\ polls = 0

\* the parcels the removal loop has not taken yet
Remaining == {inactive_parcels[i] : i \in 1..Len(inactive_parcels)}

\* once an exception is raised the run has ended; no call was issued twice;
\* the stale parcels the loop had not reached have no removal call
C15_EndedAtFailure ==
  /\ exc # NoExc => pc = "failed"
  /\ \A i, j \in 1..Len(calls) : calls[i] = calls[j] => i = j
  /\ pc = "failed" =>
       \A q \in Remaining : RemovalOpsOn(q) = <<>>

C15_NothingAfterFailure ==
  (pc = "failed" \/ exc # NoExc) =>
    UNCHANGED <<calls, polls, sleeps, pc, exc, remote, inactive_parcels>>

\* C15: every fatal condition (timeout, remote error, selection error) ends
\* the run at once: no further call, no retry of the failed transition, and
\* after a failed removal no removal call on the remaining stale parcels.
C15_FatalEndsRun ==
  [](C15_EndedAtFailure) /\ [][C15_NothingAfterFailure]_vars

\* the removal of one stale parcel timed out while another stale parcel that
\* owes a removal call was still to come
C15_Witness ==
  /\ pc = "failed"
  /\ exc.kind = "Timeout"
  /\ ret = "er_undistributed"
  /\ RemovalOpsOn(parcel) = <<"start_removal_of_distribution">>
  /\ \E q \in Remaining : OwedRemoval(q.stage) # <<>>

\* the run before this one, when there was one
Previous == past[Len(past)]

\* this run follows a run that ended in an uncaught exception
PreviousAborted == past # <<>> /\ Previous.exc # NoExc

\* the call named op was issued in this run
Issued(op) == \E i \in 1..Len(calls) : calls[i].op = op

\* the call named op was issued on parcel p in the run before
IssuedBefore(op, p) ==
  \E i \in 1..Len(Previous.calls) :
    /\ Previous.calls[i].op = op
    /\ Previous.calls[i].product = p.product
    /\ Previous.calls[i].version = p.version

\* the parcel driven by the new run is taken from the new listing, and the
\* actions issued on it are those owed from its stage in that listing
C16_ResumesFromRemote ==
  (PreviousAborted /\ ActivationEntered) =>
    /\ parcel \in Listed
    /\ IsPrefix(ActivationOps, OwedFrom(parcel.stage))
    /\ parcel.stage \in {"DOWNLOADED", "DISTRIBUTED"} =>
         ~Issued("start_download")
    /\ parcel.stage = "DISTRIBUTED" => ~Issued("start_distribution")
    /\ ActivationReturned => ActivationOps = OwedFrom(parcel.stage)

\* the new run reads the parcel list as the remote has it then
C16_RereadsListing ==
  (PreviousAborted /\ pc = "select") => all_parcels' = remote

\* C16: a run that follows an aborted run re-reads the parcel list and issues
\* on its candidate only the lifecycle actions for the stages the parcel has
\* not reached by then, never download-start or distribute-start for a stage
\* already passed.
C16_RerunResumes ==
  [](C16_ResumesFromRemote) /\ [][C16_RereadsListing]_vars

\* the first run issued download-start and distribute-start on the parcel and
\* timed out; the second run found the same parcel DISTRIBUTED and returned
\* from the driver having issued activate alone
C16_Witness ==
  /\ PreviousAborted
  /\ Previous.exc.kind = "Timeout"
  /\ ActivationReturned
  /\ parcel.stage = "DISTRIBUTED"
  /\ parcel.version = Previous.parcel.version
  /\ IssuedBefore("start_download", parcel)
  /\ IssuedBefore("start_distribution", parcel)
  /\ ActivationOps = <<"activate">>

\* the run before timed out in its wait for ACTIVATED
TimedOutActivating ==
  /\ past # <<>>
  /\ Previous.exc = Raise("Timeout", <<"ACTIVATED">>)
  /\ Previous.parcel # None

\* the listing of this run shows the parcel of the run before as ACTIVATED
FormerCandidateActivated ==
  \E p \in ProductActivated : p.version = Previous.parcel.version

\* a parcel of the listing, not activated, of the release of the former
\* candidate and of a greater build
NewerSameRelease ==
  {c \in ProductOthers :
     /\ HasRelease(c) /\ HasBuild(c)
     /\ ReleaseOf(c) = ReleaseOf(Previous.parcel)
     /\ BuildOf(c) > BuildOf(Previous.parcel)}

\* a restart was issued in the run before
RestartedBefore ==
  \E i \in 1..Len(Previous.calls) : Previous.calls[i].op \in RestartOps

\* C20: when the run before timed out waiting for ACTIVATED and this run's
\* listing shows its candidate ACTIVATED, that parcel is the baseline of this
\* run; with no newer build of its release listed this run selects nothing
\* and ends normally with no call at all, and neither run issued a restart.
C20_ActivatedLateNeverRestarted ==
  (TimedOutActivating /\ pc # "select" /\ FormerCandidateActivated) =>
    /\ exc = NoExc \/ pc = "failed"
    /\ Baseline.version = Previous.parcel.version
    /\ ~RestartedBefore
    /\ NewerSameRelease = {} =>
         /\ pc = "done"
         /\ exc = NoExc
         /\ parcel = None
         /\ calls = <<>>
         /\ polls = 0
         /\ relisted = <<>>

\* the second run ended with the parcel activated after the timeout as its
\* baseline, the earlier baseline still listed, clear-after-success set
C20_Witness ==
  /\ TimedOutActivating
  /\ pc = "done"
  /\ FormerCandidateActivated
  /\ NewerSameRelease = {}
  /\ args.clear_after_success
  /\ \E i \in 1..Len(Previous.calls) : Previous.calls[i].op = "activate"
  /\ \E c \in ProductOthers : c.stage = "DISTRIBUTED"

\* the removal calls issued so far, each with the version it was issued on
RemovalCalls ==
  LET F[i \in 0..Len(calls)] ==
        IF i = 0 THEN <<>>
        ELSE IF calls[i].op \in RemovalOps
             THEN Append(F[i - 1], <<calls[i].op, calls[i].product,
                                     calls[i].version>>)
             ELSE F[i - 1]
  IN  F[Len(calls)]

\* the parcels of the named product that the listing read after the restart
\* shows in a stage other than ACTIVATED, in the order of the listing
StaleListed ==
  LET F[i \in 0..Len(relisted)] ==
        IF i = 0 THEN <<>>
        ELSE IF /\ relisted[i].product = args.parcel_name
                /\ relisted[i].stage # "ACTIVATED"
             THEN Append(F[i - 1], relisted[i])
             ELSE F[i - 1]
  IN  F[Len(relisted)]

\* the removal calls of removeParcel run to completion on the first k stale
\* parcels, one parcel after the other
RemovedUpTo(k) ==
  LET F[i \in 0..k] ==
        IF i = 0 THEN <<>>
        ELSE F[i - 1] \o
             [j \in 1..Len(OwedRemoval(StaleListed[i].stage)) |->
                <<OwedRemoval(StaleListed[i].stage)[j],
                  StaleListed[i].product, StaleListed[i].version>>]
  IN  F[k]

\* the number of stale parcels the loop of main has taken
Taken == Len(StaleListed) - Len(inactive_parcels)

RemovalPcs == {"er_distribution", "er_undistributed", "er_download"}

\* removeParcel is running on `parcel`, or has failed on it
InRemoval ==
  \/ pc \in RemovalPcs
  \/ RemovalWaiting
  \/ pc = "failed" /\ ret = "er_undistributed"

\* C17: removal happens only with clear-after-success set and dry-run off;
\* removeParcel is then called on exactly the parcels of the named product
\* that the listing read after the restart shows in a stage other than
\* ACTIVATED, one at a time and each to completion before the next, and no
\* removal call is issued on a parcel listed ACTIVATED or of another product.
C17_CleanupExactlyStale ==
  /\ (RemovalCalls # <<>> \/ InRemoval \/ pc = "remove_loop") =>
       /\ args.clear_after_success /\ ~dry_run
       /\ Issued("restart_returned")
       /\ Taken \in 0..Len(StaleListed)
       /\ inactive_parcels =
            SubSeq(StaleListed, Taken + 1, Len(StaleListed))
  /\ \A i \in 1..Len(RemovalCalls) :
       \E p \in Relisted :
         /\ p.product = RemovalCalls[i][2] /\ p.version = RemovalCalls[i][3]
         /\ p.product = args.parcel_name
         /\ p.stage # "ACTIVATED"
  /\ pc = "remove_loop" => RemovalCalls = RemovedUpTo(Taken)
  /\ InRemoval =>
       /\ Taken >= 1
       /\ parcel = StaleListed[Taken]
       /\ IsPrefix(RemovedUpTo(Taken - 1), RemovalCalls)
       /\ IsPrefix(RemovalCalls, RemovedUpTo(Taken))
  /\ (pc = "done" /\ args.clear_after_success /\ ~dry_run /\ relisted # <<>>)
       => /\ inactive_parcels = <<>>
          /\ RemovalCalls = RemovedUpTo(Len(StaleListed))
  /\ (dry_run \/ ~args.clear_after_success) => RemovalCalls = <<>>

\* the cleanup ended: the stale parcel of the product was removed, while the
\* listing also showed an activated parcel of the product and a parcel of
\* another product that is not activated
C17_Witness ==
  /\ pc = "done"
  /\ Len(StaleListed) >= 1
  /\ Len(RemovalCalls) = 2
  /\ \E p \in Relisted : p.product = args.parcel_name /\ p.stage = "ACTIVATED"
  /\ \E p \in Relisted : p.product # args.parcel_name /\ p.stage # "ACTIVATED"

\* the last wait ended at a poll that reported the candidate ACTIVATED
ObservedActivated ==
  /\ parcel = Chosen
  /\ stage = "ACTIVATED"
  /\ polls >= 1
  /\ target_parcel.stage = "ACTIVATED"
  /\ \E i \in 1..Len(remote) :
       /\ remote[i].product = parcel.product
       /\ remote[i].version = parcel.version
       /\ remote[i].stage = "ACTIVATED"

C18_ReturnsOnlyObserved ==
  ActivationReturned => Issued("activate") /\ ObservedActivated

C18_RestartOnlyObserved ==
  (\E i \in 1..Len(calls') : calls'[i].op \in RestartOps /\ i > Len(calls))
    => ObservedActivated

\* C18: with dry-run off (and the four stages of the listing) activateParcel
\* returns normally only after a poll of this run reported the candidate
\* ACTIVATED, and a restart is issued only after that.
C18_RestartAfterObservedActivated ==
  [](C18_ReturnsOnlyObserved) /\ [][C18_RestartOnlyObserved]_vars

\* the restart was issued for a candidate entered at AVAILABLE_REMOTELY whose
\* last wait saw ACTIVATED at its second poll
C18_Witness ==
  /\ pc = "restart_wait"
  /\ ~dry_run
  /\ parcel.stage = "AVAILABLE_REMOTELY"
  /\ polls = 2
  /\ ObservedActivated

ServiceErrors == {"NoService", "AmbiguousService"}

\* C19: the named service is resolved only after activation: with dry-run
\* off, a run that fails with the service-selection error has a candidate,
\* has issued all the lifecycle actions owed to it and has observed it
\* ACTIVATED, and has issued no restart and no removal.
C19_ServiceResolvedAfterActivation ==
  (exc.kind \in ServiceErrors /\ ~dry_run) =>
    /\ pc = "failed"
    /\ parcel # None
    /\ ActivationOps = OwedFrom(parcel.stage)
    /\ Len(calls) = Len(ActivationOps)
    /\ ObservedActivated
    /\ relisted = <<>>
    /\ exc = find_service_exc(args.service_name)

\* a service name matching two services failed the run after the candidate,
\* entered at AVAILABLE_REMOTELY, had been driven to ACTIVATED
C19_Witness ==
  /\ exc.kind = "AmbiguousService"
  /\ ~dry_run
  /\ parcel.stage = "AVAILABLE_REMOTELY"
  /\ ActivationOps = OwedFrom("AVAILABLE_REMOTELY")

====
